---- MODULE Spec2Model ----
(***************************************************************************)
(* Model of static/js/main.js: the copy-to-clipboard controller.           *)
(*                                                                         *)
(* A page holds copy buttons (class btn-copy).  On DOMContentLoaded one    *)
(* async click listener is attached to each.  A click resolves the         *)
(* password text, and either shows "No password", or calls                 *)
(* navigator.clipboard.writeText and, when the promise settles, shows      *)
(* "Copied!" or "Failed".  Every feedback label schedules a 1500 ms        *)
(* timer that writes a label back.                                         *)
(*                                                                         *)
(* Strings that the code trims are sequences of characters; labels and     *)
(* colours, which the code only assigns and copies, are TLA+ strings.      *)
(* Time is abstracted: all timers have the same delay, so they fire in     *)
(* the order they were scheduled, at any moment.                           *)
(***************************************************************************)
EXTENDS Integers, Sequences, FiniteSets, TLC

(* ---------------- bounds of the model ---------------- *)

\* longest text-source content explored by SpecText
MaxLen == 3
\* handler invocations explored in one behaviour
MaxClicks == 2
\* replacements of a text source's content explored in one behaviour
MaxEdits == 1

(* ---------------- values ---------------- *)

Buttons == {"b1", "b2"}
Chars == {" ", "a"}
IsSpace(c) == c = " "

StringsUpTo(n) == UNION {[1..k -> Chars] : k \in 0..n}
\* contents the text source takes in Spec: no password, a password
CoreTexts == {<<>>, <<"a">>}
\* contents the text source takes in SpecText
AllTexts == StringsUpTo(MaxLen)

\* labels a button may carry in the page's markup
InitialLabels == {"Copy", "Copy password"}

SuccessColor == "#4ade80"
DefaultColor == ""

(* ---------------- state ---------------- *)

VARIABLES
  dom,          \* per button: the static structure of the page around it
  api,          \* navigator.clipboard exists (secure context)
  ready,        \* DOMContentLoaded has been dispatched
  listeners,    \* per button: number of click listeners attached
  textContent,  \* per button: textContent of its .password-text element
  label,        \* per button: copyBtn.textContent
  color,        \* per button: copyBtn.style.color
  pending,      \* writeText promises not yet settled, one record per call
  alone,        \* ids of invocations begun on an idle button whose restore
                \* has not run yet, and which no other click on that button
                \* overlapped while their write was pending
  timers,       \* setTimeout callbacks not yet run, in scheduling order
  writeCalls,   \* number of evaluations of the writeText call of line 41
  lastCall,     \* the most recent of them: invocation, button, argument
  clipboard,    \* content of the system clipboard
  newestOk,     \* among the fulfilled writes, the call of the latest click
  nextId,       \* handler invocations started so far
  edits,        \* replacements of a text source's content so far
  uncaught      \* an exception or rejection escaped a callback

vars == <<dom, api, ready, listeners, textContent, label, color, pending,
          alone, timers, writeCalls, lastCall, clipboard, newestOk, nextId,
          edits, uncaught>>

\* the part of the state a click handler and its continuations work on
Page == [label |-> label, color |-> color, pending |-> pending,
         alone |-> alone,
         timers |-> timers, writeCalls |-> writeCalls, lastCall |-> lastCall,
         nextId |-> nextId,
         uncaught |-> uncaught]

SetPage(p) ==
  /\ label' = p.label
  /\ color' = p.color
  /\ pending' = p.pending
  /\ alone' = p.alone
  /\ timers' = p.timers
  /\ writeCalls' = p.writeCalls
  /\ lastCall' = p.lastCall
  /\ nextId' = p.nextId
  /\ uncaught' = p.uncaught

(* ---------------- String.prototype.trim ---------------- *)

RECURSIVE TrimStart(_)
TrimStart(s) ==
  IF s = <<>> THEN s
  ELSE IF IsSpace(Head(s)) THEN TrimStart(Tail(s)) ELSE s

RECURSIVE TrimEnd(_)
TrimEnd(s) ==
  IF s = <<>> THEN s
  ELSE IF IsSpace(s[Len(s)]) THEN TrimEnd(SubSeq(s, 1, Len(s) - 1)) ELSE s

TrimIdentity(s) == s

TrimStartOnly(s) == TrimStart(s)

Trim(s) == TrimEnd(TrimStart(s))

(* ---------------- lines 19-32: resolving the text ---------------- *)

\* line 19-20: closest('.password-option') and querySelector('.password-text')
PasswordEl(b) == dom[b].passwordEl

\* line 27: passwordEl.dataset.password
DatasetPassword(b) == dom[b].dataPassword

ResolveText(b) ==
  LET text1 == IF PasswordEl(b) THEN Trim(textContent[b])
               ELSE IF dom[b].hasDataTarget
                    THEN (IF PasswordEl(b) THEN DatasetPassword(b) ELSE <<>>)
                    ELSE <<>>
  IN IF text1 = <<>> /\ PasswordEl(b) THEN Trim(textContent[b]) ELSE text1

(* ---------------- the click handler ---------------- *)

Timer(id, b, kind, text, clear) ==
  [id |-> id, btn |-> b, kind |-> kind, text |-> text, clearColor |-> clear]

\* lines 33-37
NoPasswordBranchNoTimer(p, b, id) ==
  [p EXCEPT !.label[b] = "No password"]

NoPasswordBranch(p, b, id) ==
  [p EXCEPT !.label[b] = "No password",
            !.timers = Append(@, Timer(id, b, "nopw", "Copy", FALSE))]

\* lines 50-56
CatchBranchRethrow(p, b, id) ==
  [p EXCEPT !.uncaught = TRUE]

CatchBranch(p, b, id) ==
  [p EXCEPT !.label[b] = "Failed",
            !.timers = Append(@, Timer(id, b, "failed", "Copy", FALSE))]

\* lines 42-49, run when the promise of line 41 is fulfilled
SuccessBranchFixedLabel(p, b, id) ==
  [p EXCEPT !.label[b] = "Copied!",
            !.color[b] = SuccessColor,
            !.timers = Append(@, Timer(id, b, "copied", "Copy", TRUE))]

SuccessBranch(p, b, id) ==
  LET originalText == p.label[b] IN
  [p EXCEPT !.label[b] = "Copied!",
            !.color[b] = SuccessColor,
            !.timers = Append(@, Timer(id, b, "copied", originalText, TRUE))]

\* whether button b shows its markup label with nothing in flight
Idle(p, b) ==
  /\ p.label[b] = dom[b].label0
  /\ p.color[b] = DefaultColor
  /\ \A w \in p.pending : w.btn # b
  /\ \A i \in 1..Len(p.timers) : p.timers[i].btn # b

\* line 41: the call expression is evaluated with the resolved text
WriteTextCallEagerLabel(p, b, id, text) ==
  LET call == [id |-> id, btn |-> b, text |-> text] IN
  IF api
  THEN [p EXCEPT !.writeCalls = @ + 1,
                 !.lastCall = call,
                 !.pending = @ \cup {call},
                 !.label[b] = "Copied!",
                 !.alone = IF Idle(p, b) THEN @ \cup {id} ELSE @]
  ELSE CatchBranch([p EXCEPT !.writeCalls = @ + 1, !.lastCall = call], b, id)

WriteTextCall(p, b, id, text) ==
  LET call == [id |-> id, btn |-> b, text |-> text] IN
  IF api
  THEN [p EXCEPT !.writeCalls = @ + 1,
                 !.lastCall = call,
                 !.pending = @ \cup {call},
                 !.alone = IF Idle(p, b) THEN @ \cup {id} ELSE @]
  ELSE CatchBranch([p EXCEPT !.writeCalls = @ + 1, !.lastCall = call], b, id)

\* lines 17-41: the synchronous part of one handler invocation
ClickHandler(p, b) ==
  LET id == p.nextId + 1
      q == [p EXCEPT !.nextId = id,
                     !.alone = @ \ {w.id : w \in {v \in p.pending : v.btn = b}}]
      text == ResolveText(b)
  IN IF text = <<>> THEN NoPasswordBranch(q, b, id)
     ELSE WriteTextCall(q, b, id, text)

\* dispatch of one click event: every attached listener runs in turn
RECURSIVE RunListeners(_, _, _)
RunListeners(n, p, b) ==
  IF n = 0 THEN p ELSE RunListeners(n - 1, ClickHandler(p, b), b)

(* ---------------- actions ---------------- *)

\* lines 12-17: the setup pass
AttachTwice(b) == IF dom[b].present THEN 2 ELSE 0

Attach(b) == IF dom[b].present THEN 1 ELSE 0

DOMContentLoaded ==
  /\ ~ready
  /\ ready' = TRUE
  /\ listeners' = [b \in Buttons |-> listeners[b] + Attach(b)]
  /\ UNCHANGED <<dom, api, textContent, label, color, pending, alone, timers,
                 writeCalls, lastCall, clipboard, newestOk, nextId, edits,
                 uncaught>>

\* the user clicks button b
Click(b) ==
  /\ dom[b].present
  /\ nextId + listeners[b] <= MaxClicks
  /\ SetPage(RunListeners(listeners[b], Page, b))
  /\ UNCHANGED <<dom, api, ready, listeners, textContent, clipboard, newestOk,
                 edits>>

\* the promise of line 41 is fulfilled: the clipboard holds the text
WriteResolveRereads(w) ==
  /\ w \in pending
  /\ clipboard' = Trim(textContent[w.btn])
  /\ newestOk' = IF w.id > newestOk.id THEN w ELSE newestOk
  /\ SetPage(SuccessBranch([Page EXCEPT !.pending = @ \ {w}], w.btn, w.id))
  /\ UNCHANGED <<dom, api, ready, listeners, textContent, edits>>

WriteResolve(w) ==
  /\ w \in pending
  /\ clipboard' = w.text
  /\ newestOk' = IF w.id > newestOk.id THEN w ELSE newestOk
  /\ SetPage(SuccessBranch([Page EXCEPT !.pending = @ \ {w}], w.btn, w.id))
  /\ UNCHANGED <<dom, api, ready, listeners, textContent, edits>>

\* the promise of line 41 is rejected
WriteReject(w) ==
  /\ w \in pending
  /\ SetPage(CatchBranch([Page EXCEPT !.pending = @ \ {w}, !.alone = @ \ {w.id}],
                         w.btn, w.id))
  /\ UNCHANGED <<dom, api, ready, listeners, textContent, clipboard, newestOk,
                 edits>>

\* which timer runs next: all delays are 1500 ms, so the oldest
NextTimerNewest(ts) == Len(ts)

NextTimer(ts) == 1

\* which button a timer callback writes to: the copyBtn of its closure
TimerTargetLast(t) == "b2"

TimerTarget(t) == t.btn

\* lines 35, 46-49, 55: a restore callback runs
TimerFire ==
  /\ timers # <<>>
  /\ LET i == NextTimer(timers)
         t == timers[i]
         b == TimerTarget(t)
     IN /\ timers' = SubSeq(timers, 1, i - 1) \o SubSeq(timers, i + 1, Len(timers))
        /\ label' = [label EXCEPT ![b] = t.text]
        /\ color' = IF t.clearColor THEN [color EXCEPT ![b] = DefaultColor]
                    ELSE color
        /\ alone' = alone \ {t.id}
  /\ UNCHANGED <<dom, api, ready, listeners, textContent, pending,
                 writeCalls, lastCall, clipboard, newestOk, nextId, edits,
                 uncaught>>

\* the page replaces the content of a text source
SetText(b, s) ==
  /\ PasswordEl(b)
  /\ s # textContent[b]
  /\ edits < MaxEdits
  /\ edits' = edits + 1
  /\ textContent' = [textContent EXCEPT ![b] = s]
  /\ UNCHANGED <<dom, api, ready, listeners, label, color, pending, alone,
                 timers, writeCalls, lastCall, clipboard, newestOk, nextId,
                 uncaught>>

(* ---------------- initial states ---------------- *)

\* before the first call
NoCall == [id |-> 0, btn |-> "", text |-> <<>>]

Absent == [present |-> FALSE, passwordEl |-> FALSE, hasDataTarget |-> FALSE,
           dataTarget |-> <<>>, dataPassword |-> <<>>, label0 |-> ""]

\* a copy button: inside a .password-option with a .password-text or not,
\* with a data-target attribute or not
Present(e, h, l) ==
  [present |-> TRUE, passwordEl |-> e, hasDataTarget |-> h,
   dataTarget |-> IF h THEN <<"a">> ELSE <<>>,
   dataPassword |-> <<>>, label0 |-> l]

AnyButton ==
  {Absent} \cup {Present(e, h, l) : e \in BOOLEAN, h \in BOOLEAN, l \in InitialLabels}

\* the single-button page of SpecText: the button sits beside its text source
WiredButton == {Present(TRUE, FALSE, "Copy")}

InitOver(doms, texts) ==
  /\ dom \in doms
  /\ api \in BOOLEAN
  /\ ready = FALSE
  /\ listeners = [b \in Buttons |-> 0]
  /\ textContent \in [Buttons -> texts]
  /\ \A b \in Buttons : ~dom[b].passwordEl => textContent[b] = <<>>
  /\ label = [b \in Buttons |-> dom[b].label0]
  /\ color = [b \in Buttons |-> DefaultColor]
  /\ pending = {}
  /\ alone = {}
  /\ timers = <<>>
  /\ writeCalls = 0
  /\ lastCall = NoCall
  /\ clipboard = <<>>
  /\ newestOk = NoCall
  /\ nextId = 0
  /\ edits = 0
  /\ uncaught = FALSE

Init == InitOver([Buttons -> AnyButton], CoreTexts)

InitText ==
  InitOver({d \in [Buttons -> WiredButton \cup {Absent}] :
              d["b1"].present /\ ~d["b2"].present}, AllTexts)

Handlers ==
  \/ DOMContentLoaded
  \/ \E b \in Buttons : Click(b)
  \/ \E w \in pending : WriteResolve(w)
  \/ \E w \in pending : WriteReject(w)
  \/ TimerFire

Next ==
  \/ Handlers
  \/ \E b \in Buttons : \E s \in CoreTexts : SetText(b, s)

NextText ==
  \/ Handlers
  \/ \E b \in Buttons : \E s \in AllTexts : SetText(b, s)

Spec == Init /\ [][Next]_vars

SpecText == InitText /\ [][NextText]_vars

(* ---------------- vocabulary of the properties ---------------- *)

\* a content that is empty or consists of whitespace only
Blank(s) == \A i \in 1..Len(s) : IsSpace(s[i])

\* t is s without its leading and trailing whitespace
IsTrimOf(t, s) ==
  \E i \in 0..Len(s), j \in 0..Len(s) :
    /\ i + j <= Len(s)
    /\ t = SubSeq(s, i + 1, Len(s) - j)
    /\ \A k \in 1..i : IsSpace(s[k])
    /\ \A k \in (Len(s) - j + 1)..Len(s) : IsSpace(s[k])
    /\ t # <<>> => ~IsSpace(t[1]) /\ ~IsSpace(t[Len(t)])

\* a click event on b that starts the one handler the setup attached
OneClick(b) == Click(b) /\ listeners[b] = 1

TimersOf(ts, b) == {i \in 1..Len(ts) : ts[i].btn = b}

(* ---------------- C1 ---------------- *)

\* C1: a click on a copy button whose text source is empty or whitespace-only
\* at that click makes no clipboard write (no call, no pending promise) and
\* sets the button's label to "No password".
C1_BlankTextNeverWrites ==
  [][\A b \in Buttons :
       (OneClick(b) /\ Blank(textContent[b]))
         => /\ writeCalls' = writeCalls
            /\ lastCall' = lastCall
            /\ pending' = pending
            /\ label'[b] = "No password"]_vars

\* a whitespace-only, non-empty text source has been clicked
C1_Witness ==
  /\ nextId = 1 /\ edits = 0
  /\ textContent["b1"] # <<>> /\ Blank(textContent["b1"])
  /\ label["b1"] = "No password"
  /\ writeCalls = 0

(* ---------------- C2 ---------------- *)

\* C2: a click on a button nested beside a non-blank text source evaluates the
\* clipboard write exactly once, with the content the source has at that
\* click without its surrounding whitespace; the call's argument stays what
\* it was while the write is pending, whatever happens to the text source,
\* and it is what a successful write puts on the clipboard.
C2_WritesTrimmedTextOnce ==
  [][/\ \A b \in Buttons :
          (OneClick(b) /\ PasswordEl(b) /\ ~Blank(textContent[b]))
            => /\ writeCalls' = writeCalls + 1
               /\ lastCall'.id = nextId' /\ lastCall'.btn = b
               /\ lastCall'.text # <<>>
               /\ IsTrimOf(lastCall'.text, textContent[b])
               /\ api => pending' = pending \cup {lastCall'}
     /\ \A w \in pending :
          \/ w \in pending'
          \/ /\ pending' = pending \ {w}
             /\ writeCalls' = writeCalls
             /\ \/ label'[w.btn] = "Copied!" /\ clipboard' = w.text
                \/ label'[w.btn] = "Failed" /\ clipboard' = clipboard]_vars

\* two clicks with an edit between them: each call carries the content of its
\* own click, and the first is still pending with its own argument
C2_Witness ==
  \E w1 \in pending, w2 \in pending :
    /\ w1.id = 1 /\ w2.id = 2 /\ w1.btn = "b1" /\ w2.btn = "b1"
    /\ w1.text # w2.text
    /\ w2.text = <<"a">>
    /\ textContent["b1"] = <<" ", "a", " ">>
    /\ lastCall = w2 /\ writeCalls = 2

(* ---------------- C3 ---------------- *)

C4_BackToIdle ==
  \A b \in Buttons :
    ((\A w \in pending : w.btn # b) /\ TimersOf(timers, b) = {})
      => label[b] = dom[b].label0 /\ color[b] = DefaultColor

(* ---------------- C5 ---------------- *)

\* C5: a rejected clipboard write (asynchronously, or at once where
\* navigator.clipboard is missing) never escapes the handler; the label is
\* "Failed" right after the rejection, and "Copy" when the restore timer of
\* that click has run.
C5_RejectionHandled ==
  [][/\ ~uncaught'
     /\ \A w \in pending : WriteReject(w) => label'[w.btn] = "Failed"
     /\ \A b \in Buttons :
          (OneClick(b) /\ ~api /\ ~Blank(textContent[b]))
            => label'[b] = "Failed" /\ timers' # timers
     /\ (TimerFire /\ timers # <<>> /\ timers[1].kind = "failed")
          => label'[timers[1].btn] = "Copy"]_vars

\* one click whose write was rejected after it had been pending, restored
C5_Witness ==
  /\ api /\ nextId = 1 /\ writeCalls = 1 /\ clipboard = <<>>
  /\ pending = {} /\ timers = <<>>
  /\ lastCall.btn = "b1"
  /\ label["b1"] = "Copy" /\ dom["b1"].label0 = "Copy password"

(* ---------------- C6 ---------------- *)

\* a step of a handler, continuation or timer that belongs to button a
StepOf(a) ==
  \/ Click(a) /\ listeners[a] > 0
  \/ \E w \in pending : w.btn = a /\ (WriteResolve(w) \/ WriteReject(w))
  \/ TimerFire /\ timers # <<>> /\ timers[1].btn = a

\* the timers of button b, in order
RECURSIVE TimersSeq(_, _)
TimersSeq(ts, b) ==
  IF ts = <<>> THEN <<>>
  ELSE IF Head(ts).btn = b THEN <<Head(ts)>> \o TimersSeq(Tail(ts), b)
  ELSE TimersSeq(Tail(ts), b)

\* C6: a step that belongs to button A leaves every other button B as it
\* was: B's label and colour, and all that B's own handlers read or run
\* later (B's text source, B's pending writes, B's scheduled restores).
C6_ButtonsIndependent ==
  [][\A a \in Buttons : StepOf(a) =>
       \A b \in Buttons \ {a} :
         /\ label'[b] = label[b]
         /\ color'[b] = color[b]
         /\ textContent'[b] = textContent[b]
         /\ {w \in pending' : w.btn = b} = {w \in pending : w.btn = b}
         /\ TimersSeq(timers', b) = TimersSeq(timers, b)]_vars

\* both buttons in the middle of their own feedback cycle
C6_Witness ==
  /\ label["b1"] = "Copied!" /\ color["b1"] = SuccessColor
  /\ label["b2"] = "No password" /\ color["b2"] = DefaultColor
  /\ Len(timers) = 2 /\ timers[1].btn = "b2" /\ timers[2].btn = "b1"

(* ---------------- C7 ---------------- *)

\* C7: a click on a button that has no password text element but carries the
\* data attribute, with a non-empty value, evaluates the clipboard write with
\* that value and does not show "No password".
C7_DataAttributeFallback ==
  [][\A b \in Buttons :
       (OneClick(b) /\ ~PasswordEl(b) /\ dom[b].hasDataTarget
          /\ dom[b].dataTarget # <<>>)
         => /\ writeCalls' = writeCalls + 1
            /\ lastCall'.text = dom[b].dataTarget
            /\ label'[b] # "No password"]_vars

(* ---------------- C8 ---------------- *)

\* C8: when the restore timer of a click with empty text runs, the label is
\* the button's original label, whatever that label is.
C8_NoPasswordRestoresOriginal ==
  [][(TimerFire /\ timers # <<>> /\ timers[1].kind = "nopw")
       => label'[timers[1].btn] = dom[timers[1].btn].label0]_vars

(* ---------------- C9 ---------------- *)

\* C9: before the setup no button has a listener; the setup runs once and
\* leaves exactly one listener on every copy button of the page and none
\* elsewhere (nothing at all on a page without copy buttons) and raises no
\* error; from then on a click event on a copy button starts exactly one
\* handler invocation.
C9_OneHandlerPerButton ==
  /\ [](/\ ~uncaught
        /\ \A b \in Buttons :
             listeners[b] = IF ready /\ dom[b].present THEN 1 ELSE 0)
  /\ [][/\ ready => ready' /\ listeners' = listeners
        /\ \A b \in Buttons : (ready /\ Click(b)) => nextId' = nextId + 1]_vars

\* two buttons wired, two click events, two invocations
C9_Witness ==
  /\ ready /\ dom["b1"].present /\ dom["b2"].present
  /\ listeners["b1"] = 1 /\ listeners["b2"] = 1
  /\ nextId = 2
  /\ \E i \in 1..Len(timers) : timers[i].btn = "b1"
  /\ \E i \in 1..Len(timers) : timers[i].btn = "b2"

(* ---------------- C10 ---------------- *)

\* C10: a scheduled restore is never removed except by running, and restores
\* run in the order they were scheduled; so the restore of a button that was
\* scheduled last is the last to write its label, and the label keeps that
\* value for as long as no restore of the button is scheduled.
C10_LastScheduledRestoreWins ==
  [][/\ \/ \E n \in 0..MaxClicks :
             /\ Len(timers') = Len(timers) + n
             /\ SubSeq(timers', 1, Len(timers)) = timers
          \/ /\ timers # <<>>
             /\ timers' = Tail(timers)
             /\ label'[timers[1].btn] = timers[1].text
     /\ \A b \in Buttons :
          (TimersOf(timers, b) = {} /\ TimersOf(timers', b) = {})
            => label'[b] = label[b]]_vars

\* two overlapping clicks, both restores run: the label is the one the
\* restore scheduled last wrote, which is not the original label
C10_Witness ==
  /\ nextId = 2 /\ pending = {} /\ timers = <<>>
  /\ dom["b1"].label0 = "Copy"
  /\ label["b1"] = "Copied!" /\ color["b1"] = DefaultColor

(* ---------------- C11 ---------------- *)

\* C11: the handler of a click with non-empty text suspends at the clipboard
\* write without having touched the button: the click step changes no label
\* and no colour and schedules no restore, it only adds the pending write.
\* While writes are pending the page keeps accepting clicks: a click on any
\* copy button, the same or another, starts a new invocation.
C11_SuspendedHandlerIsSilent ==
  /\ [](\A b \in Buttons :
          (pending # {} /\ dom[b].present /\ nextId < MaxClicks)
            => ENABLED (Click(b) /\ nextId' = nextId + 1))
  /\ [][\A b \in Buttons :
          (OneClick(b) /\ api /\ PasswordEl(b) /\ ~Blank(textContent[b]))
            => /\ label' = label
               /\ color' = color
               /\ timers' = timers
               /\ \E w \in pending' : /\ w.id = nextId' /\ w.btn = b
                                      /\ pending' = pending \cup {w}
                                      /\ w \notin pending]_vars

\* a second click on the same button was accepted while the first write was
\* pending; both invocations are suspended and the button is untouched
C11_Witness ==
  /\ Cardinality(pending) = 2
  /\ \A w \in pending : w.btn = "b1"
  /\ label["b1"] = dom["b1"].label0 /\ color["b1"] = DefaultColor
  /\ timers = <<>>

(* ---------------- C12 ---------------- *)

\* C12: in every reachable state a copy button has the success colour if and
\* only if its label is "Copied!".
C12_SuccessColorIffCopied ==
  \A b \in Buttons :
    dom[b].present => (color[b] = SuccessColor <=> label[b] = "Copied!")

(* ---------------- C13 ---------------- *)

\* this step schedules exactly one restore, for invocation id on button b,
\* of one of the given kinds, and nothing else happens to the timers
SchedulesOne(id, b, kinds) ==
  \E t \in {timers'[i] : i \in 1..Len(timers')} :
    /\ timers' = Append(timers, t)
    /\ t.id = id /\ t.btn = b /\ t.kind \in kinds

\* C13: a handler invocation completes in the click step (empty text, or the
\* write failing at once) or when its write settles, and at that step it
\* shows exactly one of "No password", "Copied!", "Failed" and schedules
\* exactly one restore carrying its id; it evaluates the clipboard write at
\* most once; no restore is scheduled by any other step.  An invocation is
\* pending or has a restore, never both and never twice, so for every button
\* restores scheduled and invocations completed advance together.
C13_OneOutcomePerInvocation ==
  /\ [](/\ \A i \in 1..Len(timers), j \in 1..Len(timers) :
             timers[i].id = timers[j].id => i = j
        /\ \A w \in pending, v \in pending : w.id = v.id => w = v
        /\ \A w \in pending, i \in 1..Len(timers) : timers[i].id # w.id
        /\ \A w \in pending : w.id \in 1..nextId
        /\ \A i \in 1..Len(timers) : timers[i].id \in 1..nextId
        /\ writeCalls <= nextId)
  /\ [][/\ \A b \in Buttons : OneClick(b) =>
             /\ nextId' = nextId + 1
             /\ \/ /\ pending' = pending /\ writeCalls' = writeCalls
                   /\ SchedulesOne(nextId', b, {"nopw"})
                   /\ label'[b] = "No password"
                \/ /\ pending' = pending /\ writeCalls' = writeCalls + 1
                   /\ SchedulesOne(nextId', b, {"failed"})
                   /\ label'[b] = "Failed"
                \/ /\ pending' = pending \cup {[id |-> nextId', btn |-> b,
                                                text |-> lastCall'.text]}
                   /\ Cardinality(pending') = Cardinality(pending) + 1
                   /\ writeCalls' = writeCalls + 1
                   /\ timers' = timers
        /\ \A w \in pending : w \notin pending' =>
             /\ pending' = pending \ {w}
             /\ nextId' = nextId /\ writeCalls' = writeCalls
             /\ \/ SchedulesOne(w.id, w.btn, {"copied"}) /\ label'[w.btn] = "Copied!"
                \/ SchedulesOne(w.id, w.btn, {"failed"}) /\ label'[w.btn] = "Failed"
        /\ (pending' = pending /\ nextId' = nextId) =>
             /\ writeCalls' = writeCalls
             /\ timers' = timers \/ (timers # <<>> /\ timers' = Tail(timers))]_vars

\* two invocations completed with different outcomes, one restore each
C13_Witness ==
  /\ nextId = 2 /\ pending = {} /\ writeCalls = 1
  /\ Len(timers) = 2
  /\ timers[1].kind = "nopw" /\ timers[1].id = 1
  /\ timers[2].kind = "copied" /\ timers[2].id = 2

(* ---------------- C14 ---------------- *)

\* C14: once no write is pending, the clipboard holds the text of the most
\* recently clicked button among those whose write was fulfilled.
C14_LatestClickOnClipboard ==
  (pending = {} /\ newestOk.id > 0) => clipboard = newestOk.text

\* C14 as amended: the clipboard changes only when a write is fulfilled, and
\* then it holds the argument of that write; so once no write is pending it
\* holds the text of the write fulfilled last, whichever click made it.
C14_LastFulfilledOnClipboard ==
  [][/\ \A w \in pending :
          (w \notin pending' /\ label'[w.btn] = "Copied!") => clipboard' = w.text
     /\ \A w \in pending :
          (w \notin pending' /\ label'[w.btn] = "Failed") => clipboard' = clipboard
     /\ pending \subseteq pending' => clipboard' = clipboard]_vars

\* two writes in flight together, fulfilled against the click order: the
\* clipboard holds the text of the earlier click
C14_Witness ==
  /\ nextId = 2 /\ writeCalls = 2 /\ pending = {}
  /\ newestOk.id = 2
  /\ clipboard # <<>> /\ clipboard # newestOk.text

====
